---- MODULE Spec2Model ----
(***************************************************************************)
(* A model of scripts/generate.py: one run of the dashboard generator.     *)
(* The run fetches the CISA catalog, the end-of-life schedules, the news   *)
(* feeds and the status feeds, in that order, and then renders the page.   *)
(* The remote payloads are the inputs of the run; they are chosen in the   *)
(* initial state and each fetch step applies the code's transformation.    *)
(***************************************************************************)
EXTENDS Integers, Sequences, FiniteSets, TLC

VARIABLES
    pc,           \* position of __main__: which step runs next
    cisa_resp,    \* what requests.get(CISA_URL) answers
    vulns,        \* result of fetch_cisa_data()
    today,        \* datetime.date.today()
    eol_resp,     \* slug -> what https://endoflife.date/api/<slug>.json answers
    eol,          \* result of fetch_eol_data()
    news_resp,    \* feed name -> what the feed's URL answers
    news,         \* result of fetch_security_news()
    status_resp,  \* what the two status feeds answer
    status,       \* result of fetch_status_updates()
    html          \* what was written to OUTPUT_FILE

vars == <<pc, cisa_resp, vulns, today, eol_resp, eol, news_resp, news,
          status_resp, status, html>>

-----------------------------------------------------------------------------
(* Python values.  A text is a TLA+ string.  None, a key that is absent    *)
(* from a JSON object (or an element absent from an XML item) and the JSON *)
(* booleans are reserved texts that no payload text equals.                *)

None == "<None>"
Absent == "<absent>"
JsonFalse == "<false>"
JsonTrue == "<true>"

IsText(x) == x \notin {None, Absent, JsonFalse, JsonTrue}

\* str(x) as an f-string formats it
Str(x) == IF x = None THEN "None" ELSE x

\* dict.get(key): an absent key reads as None
Get(x) == IF x = Absent THEN None ELSE x

\* dict.get(key, default)
GetOr(x, default) == IF x = Absent THEN default ELSE x

UpperCase == "ABCDEFGHIJKLMNOPQRSTUVWXYZ"
LowerCase == "abcdefghijklmnopqrstuvwxyz"

CharAt(s, i) == SubSeq(s, i, i)

UpperChars == {CharAt(UpperCase, i) : i \in 1..Len(UpperCase)}

\* The lower-case letter of each upper-case letter
LowerOf ==
    [c \in UpperChars |->
        CharAt(LowerCase, CHOOSE i \in 1..Len(UpperCase) : CharAt(UpperCase, i) = c)]

\* str.lower() of one character
LowerChar(c) == IF c \in UpperChars THEN LowerOf[c] ELSE c

RECURSIVE Lower(_)
\* str.lower()
Lower(s) == IF Len(s) = 0 THEN "" ELSE LowerChar(CharAt(s, 1)) \o Lower(SubSeq(s, 2, Len(s)))

\* k in s, for texts
IsSubstring(k, s) ==
    \E i \in 1..(Len(s) - Len(k) + 1) : SubSeq(s, i, i + Len(k) - 1) = k

\* seq[:n]
Take(seq, n) == SubSeq(seq, 1, IF Len(seq) < n THEN Len(seq) ELSE n)

\* any(p(x) for x in seq) is written \E i \in 1..Len(seq) : p(seq[i])

-----------------------------------------------------------------------------
(* Configuration *)

\* The dict VENDORS in its insertion order.
VENDORS == <<
    [category |-> "Microsoft",   keywords |-> <<"microsoft">>],
    [category |-> "Cisco",       keywords |-> <<"cisco">>],
    [category |-> "Citrix",      keywords |-> <<"citrix">>],
    [category |-> "Palo Alto",   keywords |-> <<"palo alto">>],
    [category |-> "Check Point", keywords |-> <<"checkpoint", "check point">>],
    [category |-> "Fortinet",    keywords |-> <<"fortinet", "fortigate">>],
    [category |-> "Aruba",       keywords |-> <<"aruba", "hpe networking">>] >>

-----------------------------------------------------------------------------
(* fetch_cisa_data *)

\* any(k in vendor_field for k in keywords)
KeywordMatch(vendor_field, keywords) ==
    \E j \in 1..Len(keywords) : IsSubstring(keywords[j], vendor_field)

\* A loop without the break: the last category that matches
AssignedVendor_LastMatch(vendor_field) ==
    IF \E i \in 1..Len(VENDORS) : KeywordMatch(vendor_field, VENDORS[i].keywords)
    THEN VENDORS[CHOOSE i \in 1..Len(VENDORS) :
                    /\ KeywordMatch(vendor_field, VENDORS[i].keywords)
                    /\ \A h \in (i + 1)..Len(VENDORS) :
                           ~KeywordMatch(vendor_field, VENDORS[h].keywords)
                ].category
    ELSE "Other"

\* The loop over VENDORS.items() with its break: the first category that matches,
\* "Other" when the loop ends without a match.
AssignedVendor(vendor_field) ==
    IF \E i \in 1..Len(VENDORS) : KeywordMatch(vendor_field, VENDORS[i].keywords)
    THEN VENDORS[CHOOSE i \in 1..Len(VENDORS) :
                    /\ KeywordMatch(vendor_field, VENDORS[i].keywords)
                    /\ \A h \in 1..(i - 1) : ~KeywordMatch(vendor_field, VENDORS[h].keywords)
                ].category
    ELSE "Other"

NvdPrefix == "https://nvd.nist.gov/vuln/detail/"
KqlPrefix == "DeviceTvmSoftwareVulnerabilities | where CveId == '"
KqlSuffix == "' | summarize count() by DeviceName"

\* The f-string of the kql field
KqlFor(v) == KqlPrefix \o Str(Get(v.cveID)) \o KqlSuffix

\* The query for every record of a tracked vendor
KqlField_EveryVendor(v, assigned_vendor) ==
    IF assigned_vendor # "Other" THEN KqlFor(v) ELSE None

\* The kql field: the query for Microsoft, None for every other category
KqlField(v, assigned_vendor) ==
    IF assigned_vendor = "Microsoft" THEN KqlFor(v) ELSE None

\* v.get('vendorProject', '').lower() raises when the value is no text (null)
VendorRaises(v) == ~IsText(GetOr(v.vendorProject, ""))

\* One pass of the loop body: v with ui_category, link and kql set
Classified(v) ==
    LET assigned_vendor == AssignedVendor(Lower(GetOr(v.vendorProject, "")))
    IN  [v EXCEPT !.ui_category = assigned_vendor,
                  !.link = NvdPrefix \o Str(Get(v.cveID)),
                  !.kql = KqlField(v, assigned_vendor)]

\* The loop of the first revision: a record of no tracked vendor is not appended
RelevantVulns_DropsUnmatched(vs) ==
    LET Tracked(v) == v.ui_category # "Other"
    IN  SelectSeq([i \in 1..Len(vs) |-> Classified(vs[i])], Tracked)

\* relevant_vulns when the loop completes
RelevantVulns(vs) == [i \in 1..Len(vs) |-> Classified(vs[i])]

\* The characters of the payload texts in code-point order: Python compares texts
\* by code point.
Ascii == " ()-./0123456789:ABCDEFGHIJKLMNOPQRSTUVWXYZ_abcdefghijklmnopqrstuvwxyz"

Ord(c) == CHOOSE i \in 1..Len(Ascii) : CharAt(Ascii, i) = c

RECURSIVE TextLess(_, _)
\* a < b for texts
TextLess(a, b) ==
    IF Len(b) = 0 THEN FALSE
    ELSE IF Len(a) = 0 THEN TRUE
    ELSE IF CharAt(a, 1) = CharAt(b, 1)
         THEN TextLess(SubSeq(a, 2, Len(a)), SubSeq(b, 2, Len(b)))
         ELSE Ord(CharAt(a, 1)) < Ord(CharAt(b, 1))

\* The elements of seq whose key is k, in their order in seq
WithKey(seq, Key(_), k) ==
    LET HasKey(x) == Key(x) = k
    IN  SelectSeq(seq, HasKey)

RECURSIVE GroupedByKey(_, _, _, _)
\* The elements of seq grouped by key, the groups in the order of the first n keys
\* of `order`, each group in its order in seq
GroupedByKey(seq, Key(_), order, n) ==
    IF n = 0 THEN <<>>
    ELSE GroupedByKey(seq, Key, order, n - 1) \o WithKey(seq, Key, order[n])

\* sorted(seq, key=Key) for the order Before of the keys: a stable sort, equal keys
\* stay in their order in seq
SortedBy(seq, Key(_), Before(_, _)) ==
    LET keys == {Key(seq[i]) : i \in 1..Len(seq)}
        Rank(x) == Cardinality({y \in keys : Before(y, x)}) + 1
        order == [r \in 1..Cardinality(keys) |-> CHOOSE x \in keys : Rank(x) = r]
    IN  GroupedByKey(seq, Key, order, Cardinality(keys))

DateAddedKey(v) == v.dateAdded

\* reverse=True: the greater key first
TextAfter(a, b) == TextLess(b, a)

\* sorted(relevant_vulns, key=lambda x: x['dateAdded'], reverse=True)
SortByDateAdded(vs) == SortedBy(vs, DateAddedKey, TextAfter)

\* x['dateAdded'] raises KeyError for a record without the key
SortRaises(vs) == \E i \in 1..Len(vs) : vs[i].dateAdded = Absent

CisaLimit == 100

\* Whether the try block of fetch_cisa_data raises: the request, the HTTP status or
\* the JSON fails, a record's vendorProject is no text, or a record has no dateAdded
CisaRaises(resp) ==
    \/ resp.kind # "ok"
    \/ \E i \in 1..Len(resp.vulnerabilities) : VendorRaises(resp.vulnerabilities[i])
    \/ SortRaises(resp.vulnerabilities)

\* The list the try block returns
CisaReturn(resp) ==
    Take(SortByDateAdded(RelevantVulns(resp.vulnerabilities)), CisaLimit)

\* fetch_cisa_data(): the sorted, truncated list, [] when anything raised
fetch_cisa_data(resp) ==
    IF CisaRaises(resp) THEN <<>> ELSE CisaReturn(resp)

-----------------------------------------------------------------------------
(* fetch_eol_data *)

\* The dict EOL_SLUGS in its insertion order.
EOL_SLUGS == <<
    [friendly_name |-> "Windows Desktop",   slug |-> "windows"],
    [friendly_name |-> "Windows Server",    slug |-> "windows-server"],
    [friendly_name |-> "Exchange Server",   slug |-> "exchange-server"],
    [friendly_name |-> "SQL Server",        slug |-> "sql-server"],
    [friendly_name |-> "Office / M365",     slug |-> "office"],
    [friendly_name |-> "Azure AD Connect",  slug |-> "azure-aad-connect"],
    [friendly_name |-> "SharePoint Server", slug |-> "sharepoint"] >>

Digits == "0123456789"

DigitChars == {CharAt(Digits, i) : i \in 1..Len(Digits)}

IsDigit(c) == c \in DigitChars

\* int(c) of each digit
DigitValOf ==
    [c \in DigitChars |-> (CHOOSE i \in 1..Len(Digits) : CharAt(Digits, i) = c) - 1]

DigitVal(c) == DigitValOf[c]

AllDigits(t) == \A i \in 1..Len(t) : IsDigit(CharAt(t, i))

RECURSIVE IntOf(_)
\* int(t) of a text of digits
IntOf(t) ==
    IF Len(t) = 0 THEN 0
    ELSE 10 * IntOf(SubSeq(t, 1, Len(t) - 1)) + DigitVal(CharAt(t, Len(t)))

\* %m: 1[0-2]|0[1-9]|[1-9]
IsMonthText(t) == Len(t) \in {1, 2} /\ AllDigits(t) /\ IntOf(t) \in 1..12

\* %d: 3[01]|[12]\d|0[1-9]|[1-9]| [1-9]
IsDayText(t) ==
    \/ Len(t) \in {1, 2} /\ AllDigits(t) /\ IntOf(t) \in 1..31
    \/ Len(t) = 2 /\ CharAt(t, 1) = " " /\ IsDigit(CharAt(t, 2)) /\ CharAt(t, 2) # "0"

DayOf(t) == IF CharAt(t, 1) = " " THEN IntOf(SubSeq(t, 2, 2)) ELSE IntOf(t)

IsLeap(y) == (y % 4 = 0 /\ y % 100 # 0) \/ y % 400 = 0

DaysInMonth(y, m) ==
    IF m = 2 THEN (IF IsLeap(y) THEN 29 ELSE 28)
    ELSE IF m \in {4, 6, 9, 11} THEN 30 ELSE 31

\* Where the first "-" of t is, 0 when it has none
FirstDash(t) ==
    IF \E i \in 1..Len(t) : CharAt(t, i) = "-"
    THEN CHOOSE i \in 1..Len(t) :
             CharAt(t, i) = "-" /\ \A h \in 1..(i - 1) : CharAt(t, h) # "-"
    ELSE 0

\* datetime.datetime.strptime(s, "%Y-%m-%d").date(): the date, or ok = FALSE where
\* strptime raises (no text, no match of the format, text left over, no such day)
ParseDate(s) ==
    LET bad == [ok |-> FALSE, y |-> 0, m |-> 0, d |-> 0]
    IN  IF ~IsText(s) \/ Len(s) < 8 THEN bad
        ELSE IF ~(AllDigits(SubSeq(s, 1, 4)) /\ CharAt(s, 5) = "-") THEN bad
        ELSE LET rest == SubSeq(s, 6, Len(s))
                 dash == FirstDash(rest)
             IN  IF dash = 0 THEN bad
                 ELSE LET mt == SubSeq(rest, 1, dash - 1)
                          dt == SubSeq(rest, dash + 1, Len(rest))
                          y  == IntOf(SubSeq(s, 1, 4))
                      IN  IF ~(IsMonthText(mt) /\ IsDayText(dt)) THEN bad
                          ELSE IF y < 1 \/ DayOf(dt) > DaysInMonth(y, IntOf(mt)) THEN bad
                          ELSE [ok |-> TRUE, y |-> y, m |-> IntOf(mt), d |-> DayOf(dt)]

RECURSIVE DaysBeforeMonth(_, _)
DaysBeforeMonth(y, m) ==
    IF m = 1 THEN 0 ELSE DaysBeforeMonth(y, m - 1) + DaysInMonth(y, m - 1)

\* date.toordinal(): the number of the day, 0001-01-01 being day 1
Ordinal(dt) ==
    LET p == dt.y - 1
    IN  365 * p + (p \div 4) - (p \div 100) + (p \div 400)
        + DaysBeforeMonth(dt.y, dt.m) + dt.d

\* (eol_dt - today).days
DaysLeft(eol_dt, today_dt) == Ordinal(eol_dt) - Ordinal(today_dt)

\* "if not eol or eol == False: continue"
EolSkipped(e) == e \in {None, JsonFalse, ""}

\* The record is passed over: no date, or strptime raised
EolPassedOver(v) == EolSkipped(Get(v.eol)) \/ ~ParseDate(Get(v.eol)).ok

\* "if days_left > -730"
EolKept(days_left) == days_left > -730

\* The thresholds with <= for <
EolStatus_Inclusive(days_left) ==
    IF days_left <= 0 THEN "expired"
    ELSE IF days_left <= 365 THEN "warning"
    ELSE "ok"

\* The status of a record that is kept
EolStatus(days_left) ==
    IF days_left < 0 THEN "expired"
    ELSE IF days_left < 365 THEN "warning"
    ELSE "ok"

\* The dict appended for the record v of the product line friendly_name
EolItem(friendly_name, v, eol_dt, days_left) ==
    [product   |-> friendly_name \o " " \o Str(Get(v.cycle)),
     eol       |-> v.eol,
     status    |-> EolStatus(days_left),
     sort_date |-> Ordinal(eol_dt)]

\* The body of the inner loop for a record that has a date: items with what the
\* record appends
EolAppended(friendly_name, v, today_dt, out) ==
    LET eol_dt == ParseDate(v.eol)
        days_left == DaysLeft(eol_dt, today_dt)
    IN  IF EolKept(days_left)
        THEN Append(out, EolItem(friendly_name, v, eol_dt, days_left))
        ELSE out

EolTop == 5

RECURSIVE EolLoop_NoInnerTry(_, _, _, _)
\* The loop without the try around strptime: a date that does not parse raises into
\* the except of the product line, which ends the line
EolLoop_NoInnerTry(friendly_name, vs, today_dt, out) ==
    IF vs = <<>> THEN out
    ELSE IF EolSkipped(Get(Head(vs).eol))
         THEN EolLoop_NoInnerTry(friendly_name, Tail(vs), today_dt, out)
    ELSE IF ~ParseDate(Head(vs).eol).ok THEN out
    ELSE EolLoop_NoInnerTry(friendly_name, Tail(vs), today_dt,
                            EolAppended(friendly_name, Head(vs), today_dt, out))

RECURSIVE EolLoop(_, _, _, _)
\* The loop over the versions vs of one product line, out being what the line has
\* appended so far
EolLoop(friendly_name, vs, today_dt, out) ==
    IF vs = <<>> THEN out
    ELSE IF EolPassedOver(Head(vs)) THEN EolLoop(friendly_name, Tail(vs), today_dt, out)
    ELSE EolLoop(friendly_name, Tail(vs), today_dt,
                 EolAppended(friendly_name, Head(vs), today_dt, out))

\* The inner loop over r.json()[:5]: what one product line appends to items
EolOfVersions(friendly_name, versions, today_dt) ==
    EolLoop(friendly_name, Take(versions, EolTop), today_dt, <<>>)

\* One pass of the outer loop: a request that raises, a status other than 200 and a
\* body that is no JSON all leave items as it is
EolOfLine(line, resp, today_dt) ==
    IF resp.kind # "ok" THEN <<>>
    ELSE EolOfVersions(line.friendly_name, resp.versions, today_dt)

RECURSIVE EolItems(_, _, _)
\* items after the first n product lines
EolItems(n, resps, today_dt) ==
    IF n = 0 THEN <<>>
    ELSE EolItems(n - 1, resps, today_dt)
         \o EolOfLine(EOL_SLUGS[n], resps[EOL_SLUGS[n].slug], today_dt)

SortDateKey(x) == x.sort_date

DateBefore(a, b) == a < b

\* sorted(items, key=lambda x: x['sort_date']): ascending, equal dates in their
\* order in items
SortBySortDate(items) == SortedBy(items, SortDateKey, DateBefore)

\* fetch_eol_data()
fetch_eol_data(resps, today_dt) ==
    SortBySortDate(EolItems(Len(EOL_SLUGS), resps, today_dt))

-----------------------------------------------------------------------------
(* fetch_security_news *)

\* The names of NEWS_FEEDS in the order of the list.
NEWS_FEEDS == <<"BleepingComputer", "The Hacker News", "Dark Reading">>

NEWS_TRIGGERS == <<"cve-", "zero-day", "exploit", "rce", "critical", "patch",
                   "vulnerability", "backdoor">>

NewsPerSource == 10
NewsTotal == 15
DateWidth == 16

\* An item is [title, link, description, pubDate]: the text of each child element,
\* None for an element without text, Absent for a missing element.

\* desc: the description's text, "" when the item has no description element
DescOf(item) == IF item.description = Absent THEN "" ELSE item.description

\* (title + " " + desc).lower()
CombinedText(item) == Lower(item.title \o " " \o DescOf(item))

\* any(trigger in combined_text for trigger in NEWS_TRIGGERS)
Triggered(combined_text) ==
    \E t \in 1..Len(NEWS_TRIGGERS) : IsSubstring(NEWS_TRIGGERS[t], combined_text)

\* .text of a missing element, or + on None, raises before the trigger test
NewsItemRaisesEarly(item) ==
    \/ item.title = Absent
    \/ item.link = Absent
    \/ item.title = None
    \/ DescOf(item) = None

\* The loop body raises: early, or on pubDate.text[:16] while the dict is built
NewsItemRaises(item) ==
    \/ NewsItemRaisesEarly(item)
    \/ Triggered(CombinedText(item)) /\ item.pubDate = None

\* The dict appended for a retained item
NewsEntry(source, item) ==
    [source |-> source,
     title  |-> item.title,
     link   |-> item.link,
     date   |-> IF item.pubDate = Absent THEN "" ELSE Take(item.pubDate, DateWidth)]

RECURSIVE NewsLoop(_, _, _)
\* The loop over the items its of one source, out being what the source has
\* appended so far.  The first item that raises ends the loop (the except clause
\* goes on to the next source); what was appended before it stays.
NewsLoop(source, its, out) ==
    IF its = <<>> THEN out
    ELSE IF NewsItemRaises(Head(its)) THEN out
    ELSE IF Triggered(CombinedText(Head(its)))
         THEN NewsLoop(source, Tail(its), Append(out, NewsEntry(source, Head(its))))
         ELSE NewsLoop(source, Tail(its), out)

\* The try block for one source: what it appends to news_items.  A request that
\* raises and a body ET.fromstring rejects append nothing.
NewsOfSource(source, resp) ==
    IF resp.kind # "ok" THEN <<>>
    ELSE NewsLoop(source, Take(resp.items, NewsPerSource), <<>>)

RECURSIVE NewsItems(_, _)
\* news_items after the first n sources
NewsItems(n, resps) ==
    IF n = 0 THEN <<>>
    ELSE NewsItems(n - 1, resps) \o NewsOfSource(NEWS_FEEDS[n], resps[NEWS_FEEDS[n]])

\* Without the cut of the return statement
fetch_security_news_NoCut(resps) == NewsItems(Len(NEWS_FEEDS), resps)

\* fetch_security_news()
fetch_security_news(resps) == Take(NewsItems(Len(NEWS_FEEDS), resps), NewsTotal)

-----------------------------------------------------------------------------
(* fetch_status_updates *)

AzureTop == 5
WindowsTop == 10

\* Where the first occurrence of k in s starts, 0 when k is not in s
Find(k, s) ==
    IF IsSubstring(k, s)
    THEN CHOOSE i \in 1..(Len(s) - Len(k) + 1) :
             /\ SubSeq(s, i, i + Len(k) - 1) = k
             /\ \A h \in 1..(i - 1) : SubSeq(s, h, h + Len(k) - 1) # k
    ELSE 0

\* s.split(k)[0]
SplitHead(s, k) == IF Find(k, s) = 0 THEN s ELSE SubSeq(s, 1, Find(k, s) - 1)

RECURSIVE Remove(_, _)
\* s.replace(k, "")
Remove(s, k) ==
    IF Find(k, s) = 0 THEN s
    ELSE SubSeq(s, 1, Find(k, s) - 1) \o Remove(SubSeq(s, Find(k, s) + Len(k), Len(s)), k)

AzureItemRaises(item) ==
    \/ item.title = Absent \/ item.description = Absent \/ item.link = Absent
    \/ item.pubDate \in {Absent, None}

AzureEntry(item) ==
    [type     |-> "Azure Outage",
     title    |-> item.title,
     desc     |-> item.description,
     date     |-> Take(item.pubDate, DateWidth),
     link     |-> item.link,
     severity |-> "critical"]

RECURSIVE AzureLoop(_, _)
AzureLoop(its, out) ==
    IF its = <<>> THEN out
    ELSE IF AzureItemRaises(Head(its)) THEN out
    ELSE AzureLoop(Tail(its), Append(out, AzureEntry(Head(its))))

\* The first try block: the Azure feed's first 5 items
AzureItems(resp) ==
    IF resp.kind # "ok" THEN <<>> ELSE AzureLoop(Take(resp.items, AzureTop), <<>>)

\* "known issue" in title.lower() or "status" in title.lower()
WindowsListed(title) ==
    IsSubstring("known issue", Lower(title)) \/ IsSubstring("status", Lower(title))

WindowsItemRaises(item) ==
    \/ item.title \in {Absent, None}
    \/ /\ WindowsListed(item.title)
       /\ \/ item.description \in {Absent, None}
          \/ item.pubDate \in {Absent, None}
          \/ item.link = Absent

WindowsEntry(item) ==
    [type     |-> "Windows Issue",
     title    |-> Remove(item.title, " known issues and notifications"),
     desc     |-> SplitHead(item.description, "See all messages") \o "...",
     date     |-> Take(item.pubDate, DateWidth),
     link     |-> item.link,
     severity |-> "warning"]

RECURSIVE WindowsLoop(_, _)
WindowsLoop(its, out) ==
    IF its = <<>> THEN out
    ELSE IF WindowsItemRaises(Head(its)) THEN out
    ELSE IF WindowsListed(Head(its).title)
         THEN WindowsLoop(Tail(its), Append(out, WindowsEntry(Head(its))))
         ELSE WindowsLoop(Tail(its), out)

\* The second try block: the Windows release health feed's first 10 items
WindowsItems(resp) ==
    IF resp.kind # "ok" THEN <<>> ELSE WindowsLoop(Take(resp.items, WindowsTop), <<>>)

\* fetch_status_updates()
fetch_status_updates(resp) == AzureItems(resp.azure) \o WindowsItems(resp.windows)

-----------------------------------------------------------------------------
(* generate_html *)

\* s.split()[0] of a text that does not start with a blank
FirstWord(s) == SplitHead(s, " ")

\* v['key'] raises KeyError for a key the catalog record does not carry
CardRaises(v) ==
    Absent \in {v.cveID, v.dateAdded, v.vulnerabilityName, v.shortDescription,
                v.requiredAction}

HtmlRaises(vs) == \E i \in 1..Len(vs) : CardRaises(vs[i])

\* The buttons of the vendor filter
VendorButtons ==
    <<"btn-All">> \o [i \in 1..Len(VENDORS) |-> "btn-" \o VENDORS[i].category]
                  \o <<"btn-Other">>

\* One card of the "Active Exploits" tab
VulnCard(v) ==
    [class       |-> "card vendor-" \o FirstWord(v.ui_category),
     data_vendor |-> v.ui_category,
     date        |-> v.dateAdded,
     href        |-> v.link,
     title       |-> v.vulnerabilityName \o " (" \o v.cveID \o ")",
     kql_box     |-> IF v.kql = None THEN "" ELSE "KQL: " \o v.kql]

\* generate_html(vulns, eol, news, status): the parts of the document that depend
\* on the collections
generate_html(vs, es, ns, ss) ==
    [vendor_buttons |-> VendorButtons,
     eol_list   |-> [i \in 1..Len(es) |->
                        [class |-> "eol-item st-" \o es[i].status,
                         prod |-> es[i].product, date |-> es[i].eol]],
     vuln_cards |-> [i \in 1..Len(vs) |-> VulnCard(vs[i])],
     status     |-> IF ss = <<>>
                    THEN <<"No active major outages or known issues found.">>
                    ELSE [i \in 1..Len(ss) |-> ss[i].title],
     news       |-> [i \in 1..Len(ns) |-> ns[i].title]]

-----------------------------------------------------------------------------
(* __main__ *)

\* vulns = fetch_cisa_data()
FetchCisa ==
    /\ pc = "fetch_cisa"
    /\ vulns' = fetch_cisa_data(cisa_resp)
    /\ pc' = "fetch_eol"
    /\ UNCHANGED <<cisa_resp, today, eol_resp, eol, news_resp, news, status_resp,
                   status, html>>

\* eol = fetch_eol_data()
FetchEol ==
    /\ pc = "fetch_eol"
    /\ eol' = fetch_eol_data(eol_resp, today)
    /\ pc' = "fetch_news"
    /\ UNCHANGED <<cisa_resp, vulns, today, eol_resp, news_resp, news, status_resp,
                   status, html>>

\* news = fetch_security_news()
FetchNews ==
    /\ pc = "fetch_news"
    /\ news' = fetch_security_news(news_resp)
    /\ pc' = "fetch_status"
    /\ UNCHANGED <<cisa_resp, vulns, today, eol_resp, eol, news_resp, status_resp,
                   status, html>>

\* status = fetch_status_updates()
FetchStatus ==
    /\ pc = "fetch_status"
    /\ status' = fetch_status_updates(status_resp)
    /\ pc' = "render"
    /\ UNCHANGED <<cisa_resp, vulns, today, eol_resp, eol, news_resp, news,
                   status_resp, html>>

\* with open(OUTPUT_FILE, 'w') as f: f.write(generate_html(...)).  open() empties
\* the file before generate_html runs; a KeyError in generate_html is caught by
\* nothing and ends the process.
Render ==
    /\ pc = "render"
    /\ IF HtmlRaises(vulns)
       THEN /\ html' = [state |-> "empty", doc |-> <<>>]
            /\ pc' = "crashed"
       ELSE /\ html' = [state |-> "written",
                        doc |-> <<generate_html(vulns, eol, news, status)>>]
            /\ pc' = "done"
    /\ UNCHANGED <<cisa_resp, vulns, today, eol_resp, eol, news_resp, news,
                   status_resp, status>>

Next == FetchCisa \/ FetchEol \/ FetchNews \/ FetchStatus \/ Render

-----------------------------------------------------------------------------
(* The payloads the runs are checked on *)

MaxVulns == 2
MaxVersions == 2
MaxItems == 2
MaxStatusItems == 1

SeqsUpTo(S, n) == UNION {[1..k -> S] : k \in 0..n}

Fillers(n, x) == [i \in 1..n |-> x]

\* A catalog record as the feed carries it
Rec(vendor, cve, date) ==
    [vendorProject |-> vendor, cveID |-> cve, dateAdded |-> date,
     vulnerabilityName |-> "Example Vulnerability",
     shortDescription |-> "An example.", requiredAction |-> "Apply updates.",
     ui_category |-> Absent, link |-> Absent, kql |-> Absent]

VendorFields ==
    {"Microsoft", "MICROSOFT Corporation", "Cisco", "San Francisco Systems",
     "Citrix", "Citrix (Cisco partner)", "Palo Alto Networks", "PaloAlto",
     "Check Point", "CheckPoint Software", "Check Point / Microsoft",
     "Fortinet", "FortiGate by Aruba", "Aruba", "HPE Networking",
     "Hewlett Packard Enterprise", "Apple", ""}

CisaRecords ==
    {Rec(vf, "CVE-2024-0001", "2024-03-01") : vf \in VendorFields}
    \cup {Rec("Microsoft", "CVE-2023-1111", "2023-11-14"),
          Rec("Apple", "CVE-2023-2222", "2023-11-14"),
          Rec("Microsoft", Absent, "2024-03-01"),
          Rec(Absent, "CVE-2024-0004", "2024-03-01"),
          Rec(None, "CVE-2024-0005", "2024-03-01"),
          Rec("Cisco", "CVE-2024-0006", Absent),
          [Rec("Apple", "CVE-2024-0007", "2024-03-01") EXCEPT !.shortDescription = Absent]}

\* The records of the long catalogs: newer than every tail record
FillerRecord == Rec("Adobe", "CVE-2025-9999", "2025-01-01")

LongTailRecords ==
    {Rec("Apple", "CVE-2023-2222", "2023-11-14"),
     Rec("Microsoft", "CVE-2023-1111", "2023-11-14"),
     Rec("Cisco", "CVE-2022-3333", "2022-05-05")}

CisaError == [kind |-> "error", vulnerabilities |-> <<>>]

\* Catalog answers: a failure, short catalogs of any records, and catalogs of
\* CisaLimit - 1 or CisaLimit filler records followed by a short tail
CisaResponses ==
    {CisaError}
    \cup {[kind |-> "ok", vulnerabilities |-> t] : t \in SeqsUpTo(CisaRecords, MaxVulns)}
    \cup {[kind |-> "ok", vulnerabilities |-> Fillers(p, FillerRecord) \o t] :
             p \in {CisaLimit - 1, CisaLimit}, t \in SeqsUpTo(LongTailRecords, MaxVulns)}

Todays == {[y |-> 2024, m |-> 1, d |-> 1], [y |-> 2024, m |-> 1, d |-> 2]}

NewYear2024 == [y |-> 2024, m |-> 1, d |-> 1]

\* Values of a version's eol field: none, false, a text that is no date, and dates
\* around the thresholds of both days of Todays
EolValues ==
    {Absent, JsonFalse, "2023-02-29",
     "2021-12-31", "2022-01-01", "2022-01-02", "2023-12-31", "2024-01-01",
     "2024-12-30", "2024-12-31"}

CycleNames == <<"23H2", "22H2", "21H2", "20H2">>

\* Version lists: a block of healthy versions followed by a short tail
FillerVersion == [cycle |-> "LTS", eol |-> "2030-6-1"]

VersionLists ==
    {Fillers(p, FillerVersion) \o [i \in 1..Len(t) |-> [cycle |-> CycleNames[i], eol |-> t[i]]] :
        p \in {0, EolTop - 1}, t \in SeqsUpTo(EolValues, MaxVersions)}

EolHttpError == [kind |-> "http_error", versions |-> <<>>]
EolException == [kind |-> "exception", versions |-> <<>>]
EolOneVersion == [kind |-> "ok", versions |-> <<[cycle |-> "2019", eol |-> "2024-01-09"]>>]

Slugs == {EOL_SLUGS[i].slug : i \in 1..Len(EOL_SLUGS)}

\* Lifecycle answers: one product line (the first, a middle or the last one) answers
\* with any version list, the other lines all answer alike
EolResponses ==
    {[s \in Slugs |-> IF s = focus THEN [kind |-> "ok", versions |-> vl] ELSE other] :
        focus \in {"windows", "sql-server", "sharepoint"}, vl \in VersionLists,
        other \in {EolHttpError, EolException, EolOneVersion}}

NewsItem(title, description, pubDate) ==
    [title |-> title, link |-> "https://news.example/story",
     description |-> description, pubDate |-> pubDate]

NewsItemKinds ==
    {NewsItem("Critical RCE in Example Software", Absent, "Mon, 01 Jan 2024 10:00:00 GMT"),
     NewsItem("Vendor releases new feature", "Quarterly roadmap update", Absent),
     NewsItem("Vendor advisory", "Fixes a Zero-Day in the agent", "Tue, 02 Jan 2024 08:30:00 GMT"),
     NewsItem("New exp", "loit kits on sale", "Tue, 02 Jan 2024 09:00:00 GMT"),
     NewsItem("Critical flaw in router firmware", None, "Wed, 03 Jan 2024 07:00:00 GMT"),
     NewsItem(Absent, "Backdoor found", "Wed, 03 Jan 2024 07:30:00 GMT"),
     NewsItem("Backdoor found in library", "Details inside", None)}

FillerItem == NewsItem("Patch Tuesday roundup", "Monthly fixes", "Thu, 04 Jan 2024 12:00:00 GMT")

NewsFetchError == [kind |-> "fetch_error", items |-> <<>>]
NewsParseError == [kind |-> "parse_error", items |-> <<>>]

\* Answers of one feed: a request that raises, a body that is no XML, and channels
\* of 0 or NewsPerSource - 1 retained items followed by a short tail
NewsFeedResponses ==
    {NewsFetchError, NewsParseError}
    \cup {[kind |-> "ok", items |-> Fillers(p, FillerItem) \o t] :
             p \in {0, NewsPerSource - 1}, t \in SeqsUpTo(NewsItemKinds, MaxItems)}

NewsOtherResponses ==
    {NewsFetchError,
     [kind |-> "ok", items |-> <<>>],
     [kind |-> "ok", items |-> <<FillerItem>>],
     [kind |-> "ok", items |-> Fillers(NewsPerSource + 1, FillerItem)]}

FeedNames == {NEWS_FEEDS[i] : i \in 1..Len(NEWS_FEEDS)}

\* News answers: one feed answers in any way, the other feeds all answer alike
NewsResponses ==
    {[f \in FeedNames |-> IF f = focus THEN r ELSE other] :
        focus \in FeedNames, r \in NewsFeedResponses, other \in NewsOtherResponses}

StatusItemKinds ==
    {NewsItem("Azure Front Door degraded", "Investigating.", "Fri, 05 Jan 2024 06:00:00 GMT"),
     NewsItem("Windows 11, version 23H2 known issues and notifications",
              "Find information on known issues. See all messages for details",
              "Fri, 05 Jan 2024 07:00:00 GMT"),
     NewsItem("Resolved issues in Windows 10", "Nothing new", Absent),
     NewsItem("Service Status page", None, "Fri, 05 Jan 2024 08:00:00 GMT")}

StatusFeedResponses ==
    {[kind |-> "error", items |-> <<>>]}
    \cup {[kind |-> "ok", items |-> t] : t \in SeqsUpTo(StatusItemKinds, MaxStatusItems)}

StatusResponses ==
    {[azure |-> a, windows |-> w] : a \in StatusFeedResponses, w \in StatusFeedResponses}

\* The state when __main__ starts, for given answers of the sources
Start(c, t, e, n, s) ==
    /\ pc = "fetch_cisa"
    /\ cisa_resp = c
    /\ today = t
    /\ eol_resp = e
    /\ news_resp = n
    /\ status_resp = s
    /\ vulns = <<>>
    /\ eol = <<>>
    /\ news = <<>>
    /\ status = <<>>
    /\ html = [state |-> "absent", doc |-> <<>>]

AllEolDown == [s \in Slugs |-> EolHttpError]
AllNewsDown == [f \in FeedNames |-> NewsFetchError]
AllStatusDown == [azure |-> [kind |-> "error", items |-> <<>>],
                  windows |-> [kind |-> "error", items |-> <<>>]]

\* Runs over every catalog answer
InitCisa ==
    \E c \in CisaResponses :
        Start(c, NewYear2024, AllEolDown, AllNewsDown, AllStatusDown)

SpecCisa == InitCisa /\ [][Next]_vars

\* Runs over every lifecycle answer and day
InitEol ==
    \E t \in Todays, e \in EolResponses :
        Start(CisaError, t, e, AllNewsDown, AllStatusDown)

SpecEol == InitEol /\ [][Next]_vars

\* Runs over every news answer
InitNews ==
    \E n \in NewsResponses :
        Start(CisaError, NewYear2024, AllEolDown, n, AllStatusDown)

SpecNews == InitNews /\ [][Next]_vars

\* Runs in which every source answers or fails
RunCisaResponses ==
    {CisaError}
    \cup {[kind |-> "ok", vulnerabilities |-> t] :
            t \in SeqsUpTo({Rec("Microsoft", "CVE-2023-1111", "2023-11-14"),
                            Rec("Apple", "CVE-2023-2222", "2023-11-14"),
                            Rec("Microsoft", Absent, "2024-03-01"),
                            Rec(None, "CVE-2024-0005", "2024-03-01")}, 1)}

RunEolResponses ==
    {[s \in Slugs |-> other] : other \in {EolHttpError, EolException, EolOneVersion}}

RunNewsResponses ==
    {[f \in FeedNames |-> other] : other \in NewsOtherResponses}

Init ==
    \E c \in RunCisaResponses, e \in RunEolResponses, n \in RunNewsResponses,
       s \in StatusResponses :
        Start(c, NewYear2024, e, n, s)

Spec == Init /\ [][Next]_vars

-----------------------------------------------------------------------------
(* Properties of fetch_cisa_data, checked under SpecCisa *)

CisaDone == pc # "fetch_cisa"

Categories == {VENDORS[i].category : i \in 1..Len(VENDORS)}

\* The lowercased vendor field of a catalog record
VendorFieldOf(v) == Lower(GetOr(v.vendorProject, ""))

\* Category number c has a keyword that is a substring of the record's vendor field
FieldMatches(v, c) == KeywordMatch(VendorFieldOf(v), VENDORS[c].keywords)

\* C1: every returned record carries the first category, in the order of VENDORS,
\* one of whose keywords is a substring of its lowercased vendor field: of several
\* categories that match, the one declared first is assigned.
C1_FirstMatchWins ==
    CisaDone =>
        \A i \in 1..Len(vulns) :
            \A c \in 1..Len(VENDORS) :
                (FieldMatches(vulns[i], c) /\ \A h \in 1..(c - 1) : ~FieldMatches(vulns[i], h))
                    => vulns[i].ui_category = VENDORS[c].category

\* A returned record whose vendor field matches two categories carries the earlier
\* one ("Check Point / Microsoft" matches Microsoft and Check Point).
C1_Witness ==
    /\ CisaDone
    /\ \E i \in 1..Len(vulns) :
           /\ vulns[i].vendorProject = "Check Point / Microsoft"
           /\ FieldMatches(vulns[i], 1) /\ FieldMatches(vulns[i], 5)
           /\ vulns[i].ui_category = "Microsoft"

\* The catalog record v as fetch_cisa_data found it
AsFetched(v) == [v EXCEPT !.ui_category = Absent, !.link = Absent, !.kql = Absent]

\* The catalog record r has a vendor field that matches no keyword
Unmatched(r) ==
    /\ IsText(GetOr(r.vendorProject, ""))
    /\ \A c \in 1..Len(VENDORS) : ~FieldMatches(r, c)

\* The catalog record r is in the result with category "Other"
KeptAsOther(r) ==
    \E i \in 1..Len(vulns) : AsFetched(vulns[i]) = r /\ vulns[i].ui_category = "Other"

\* How many records of the catalog come before record j when the catalog is put in
\* descending order of dateAdded, records of one date staying in catalog order
RecordsBefore(vs, j) ==
    Cardinality({k \in 1..Len(vs) :
        \/ TextLess(vs[j].dateAdded, vs[k].dateAdded)
        \/ vs[k].dateAdded = vs[j].dateAdded /\ k < j})

InCategories == \A i \in 1..Len(vulns) : vulns[i].ui_category \in Categories \cup {"Other"}

\* C2 as claimed: every returned record has a category, a VENDORS key or "Other",
\* and whenever the fetch succeeds every catalog record whose vendor field matches
\* no keyword is in the result with category "Other".
C2_Original ==
    (CisaDone /\ ~CisaRaises(cisa_resp)) =>
        /\ InCategories
        /\ \A j \in 1..Len(cisa_resp.vulnerabilities) :
               Unmatched(cisa_resp.vulnerabilities[j])
                   => KeptAsOther(cisa_resp.vulnerabilities[j])

\* C2 as amended: every returned record has a category, a VENDORS key or "Other",
\* and whenever the fetch succeeds a catalog record whose vendor field matches no
\* keyword is in the result with category "Other" if fewer than 100 records come
\* before it in descending order of dateAdded (the result is cut to 100 records).
C2_KeptUnlessCut ==
    CisaDone =>
        /\ InCategories
        /\ ~CisaRaises(cisa_resp) =>
               \A j \in 1..Len(cisa_resp.vulnerabilities) :
                   (/\ Unmatched(cisa_resp.vulnerabilities[j])
                    /\ RecordsBefore(cisa_resp.vulnerabilities, j) < 100)
                       => KeptAsOther(cisa_resp.vulnerabilities[j])

\* A catalog of more than 100 records of which one that matches no keyword is
\* returned as "Other" and another is cut.
C2_Witness ==
    /\ CisaDone
    /\ ~CisaRaises(cisa_resp)
    /\ Len(cisa_resp.vulnerabilities) > 100
    /\ \E j, k \in 1..Len(cisa_resp.vulnerabilities) :
           /\ cisa_resp.vulnerabilities[j].vendorProject = "Apple"
           /\ Unmatched(cisa_resp.vulnerabilities[j])
           /\ KeptAsOther(cisa_resp.vulnerabilities[j])
           /\ RecordsBefore(cisa_resp.vulnerabilities, k) >= 100

\* C10: a returned record's kql is a query if and only if its category is
\* "Microsoft", and the query holds the record's own cveID between its quotes.
C10_KqlOnlyMicrosoft ==
    CisaDone =>
        \A i \in 1..Len(vulns) :
            /\ vulns[i].kql # Absent
            /\ (vulns[i].kql # None) <=> (vulns[i].ui_category = "Microsoft")
            /\ (vulns[i].kql # None /\ vulns[i].cveID # Absent)
                   => IsSubstring("CveId == '" \o vulns[i].cveID \o "' ", vulns[i].kql)

\* A Microsoft record with its query beside a record of another tracked vendor
\* without one, the two of different cveIDs.
C10_Witness ==
    /\ CisaDone
    /\ \E i, j \in 1..Len(vulns) :
           /\ vulns[i].ui_category = "Microsoft"
           /\ vulns[i].cveID = "CVE-2023-1111"
           /\ IsSubstring("'CVE-2023-1111'", vulns[i].kql)
           /\ vulns[j].ui_category = "Cisco"
           /\ vulns[j].cveID = "CVE-2024-0001"
           /\ vulns[j].kql = None

-----------------------------------------------------------------------------
(* Properties of fetch_eol_data, checked under SpecEol *)

\* fetch_eol_data has just returned
EolReturned == pc = "fetch_news"

\* By the calendar: the days from 2024-01-01 to each date of the lifecycle answers
DaysAfterNewYear2024 ==
    [t \in {"2021-12-31", "2022-01-01", "2022-01-02", "2023-12-31", "2024-01-01",
            "2024-01-09", "2024-12-30", "2024-12-31", "2030-6-1"} |->
        CASE t = "2021-12-31" -> -731
          [] t = "2022-01-01" -> -730
          [] t = "2022-01-02" -> -729
          [] t = "2023-12-31" -> -1
          [] t = "2024-01-01" -> 0
          [] t = "2024-01-09" -> 8
          [] t = "2024-12-30" -> 364
          [] t = "2024-12-31" -> 365
          [] t = "2030-6-1"   -> 2343]

IsDate(e) == e \in DOMAIN DaysAfterNewYear2024

\* end_of_support - today in days; every day of Todays is a day of January 2024
RefDaysLeft(e) == DaysAfterNewYear2024[e] - (today.d - 1)

\* C3: every returned lifecycle record is "expired" if and only if its days_left is
\* negative, "warning" if and only if 0 <= days_left < 365, and "ok" otherwise.
C3_StatusByDaysLeft ==
    EolReturned =>
        \A i \in 1..Len(eol) :
            LET days_left == RefDaysLeft(eol[i].eol)
            IN  /\ eol[i].status \in {"expired", "warning", "ok"}
                /\ eol[i].status = "expired" <=> days_left < 0
                /\ eol[i].status = "warning" <=> (0 <= days_left /\ days_left < 365)
                /\ eol[i].status = "ok" <=> days_left >= 365

\* Records on both sides of both thresholds are returned: days_left -1, 0, 364 and
\* 365 all occur.
C3_Witness ==
    /\ EolReturned
    /\ \E i, j \in 1..Len(eol) :
           /\ RefDaysLeft(eol[i].eol) \in {-1, 364}
           /\ RefDaysLeft(eol[j].eol) \in {0, 365}
           /\ RefDaysLeft(eol[j].eol) = RefDaysLeft(eol[i].eol) + 1
           /\ eol[i].status # eol[j].status

\* The versions of a product line that the loop looks at
Considered(slug) ==
    IF eol_resp[slug].kind = "ok" THEN Take(eol_resp[slug].versions, 5) ELSE <<>>

FriendlyName(slug) ==
    EOL_SLUGS[CHOOSE n \in 1..Len(EOL_SLUGS) : EOL_SLUGS[n].slug = slug].friendly_name

\* The result has the record of version v of the product line
InEol(slug, v) ==
    \E k \in 1..Len(eol) :
        /\ eol[k].product = FriendlyName(slug) \o " " \o v.cycle
        /\ eol[k].eol = v.eol

\* C4 as claimed: a considered version with a date is left out of the result exactly
\* when days_left < -730; with days_left >= -730, days_left = -730 included, it is
\* in the result.
C4_DroppedBelow730 ==
    EolReturned =>
        \A slug \in Slugs :
            \A i \in 1..Len(Considered(slug)) :
                LET v == Considered(slug)[i]
                IN  IsDate(v.eol) => (InEol(slug, v) <=> RefDaysLeft(v.eol) >= -730)

\* A version without a date: none, false, or a text strptime rejects
Malformed(v) == ~IsDate(v.eol)

\* The sequence seq without its element i
Without(seq, i) == SubSeq(seq, 1, i - 1) \o SubSeq(seq, i + 1, Len(seq))

\* The lifecycle answers with version i taken out of what is considered for slug
WithoutVersion(slug, i) ==
    [eol_resp EXCEPT ![slug].versions = Without(Considered(slug), i)]

\* C8: a considered version without a date (none, false, or not parseable) does not
\* raise and changes nothing for the others: the result is what it is with that
\* version taken out of the considered versions.
C8_MalformedIsolated ==
    EolReturned =>
        \A slug \in Slugs :
            \A i \in 1..Len(Considered(slug)) :
                Malformed(Considered(slug)[i])
                    => eol = fetch_eol_data(WithoutVersion(slug, i), today)

\* A version whose date does not parse comes before a version of the same product
\* line that is returned, next to records of other product lines.
C8_Witness ==
    /\ EolReturned
    /\ \E slug \in Slugs :
           \E i, j \in 1..Len(Considered(slug)) :
               /\ i < j
               /\ Considered(slug)[i].eol = "2023-02-29"
               /\ IsDate(Considered(slug)[j].eol)
               /\ InEol(slug, Considered(slug)[j])
               /\ \E other \in Slugs \ {slug} :
                      Considered(other) # <<>> /\ InEol(other, Considered(other)[1])

-----------------------------------------------------------------------------
(* Properties of fetch_security_news, checked under SpecNews *)

\* fetch_security_news has just returned
NewsReturned == pc = "fetch_status"

\* The items of a feed that the loop looks at
FirstItems(f) ==
    IF news_resp[f].kind = "ok" THEN Take(news_resp[f].items, 10) ELSE <<>>

\* Processing of the feed fails: the request, the XML, or the handling of an item
SourceFails(f) ==
    \/ news_resp[f].kind # "ok"
    \/ \E i \in 1..Len(FirstItems(f)) : NewsItemRaises(FirstItems(f)[i])

\* The text the triggers are looked for in: title and description, lowercased, the
\* description empty when the item has none
ClaimedText(item) ==
    Lower(item.title \o " " \o (IF IsText(item.description) THEN item.description ELSE ""))

HasTrigger(item) ==
    \E t \in 1..Len(NEWS_TRIGGERS) : IsSubstring(NEWS_TRIGGERS[t], ClaimedText(item))

\* What a feed contributes as claimed: nothing when its processing fails, else its
\* items with a trigger
ClaimedContribution(f) ==
    IF SourceFails(f) THEN <<>>
    ELSE LET Kept(item) == HasTrigger(item)
             its == SelectSeq(FirstItems(f), Kept)
         IN  [i \in 1..Len(its) |-> NewsEntry(f, its[i])]

\* C5 as claimed: a feed whose processing fails (request, XML, or an exception on
\* one of its items) contributes no item, and every other feed is processed: the
\* result is the first 15 of the other feeds' items with a trigger, feed after feed.
C5_FailedSourceContributesNothing ==
    NewsReturned =>
        /\ \A f \in FeedNames :
               SourceFails(f) => \A k \in 1..Len(news) : news[k].source # f
        /\ news = Take(ClaimedContribution(NEWS_FEEDS[1])
                       \o ClaimedContribution(NEWS_FEEDS[2])
                       \o ClaimedContribution(NEWS_FEEDS[3]), 15)

\* The result has the item of the feed
InNews(f, item) ==
    \E k \in 1..Len(news) :
        news[k].source = f /\ news[k].title = item.title /\ news[k].link = item.link

\* C6 as claimed: each of the first 10 items of a feed is in the result if and only
\* if its lowercased title and description (empty when it has none) hold a trigger.
C6_RetainedIffTrigger ==
    NewsReturned =>
        \A f \in FeedNames :
            \A i \in 1..Len(FirstItems(f)) :
                LET item == FirstItems(f)[i]
                IN  (IsText(item.title) /\ IsText(item.link))
                        => (InNews(f, item) <=> HasTrigger(item))

FeedIndex(f) == CHOOSE n \in 1..Len(NEWS_FEEDS) : NEWS_FEEDS[n] = f

\* C7: the result has at most 15 items, at most 10 of any one feed, and the items of
\* a feed declared earlier come before those of a feed declared later.
C7_Caps ==
    NewsReturned =>
        /\ Len(news) <= 15
        /\ \A f \in FeedNames : Cardinality({k \in 1..Len(news) : news[k].source = f}) <= 10
        /\ \A i, j \in 1..Len(news) :
               i < j => FeedIndex(news[i].source) <= FeedIndex(news[j].source)

\* Both cuts act: a feed of more than 10 items with a trigger gives 10, and the next
\* feed's items fill the result up to 15 and no further.
C7_Witness ==
    /\ NewsReturned
    /\ Len(news_resp[NEWS_FEEDS[1]].items) > 10
    /\ Len(news_resp[NEWS_FEEDS[2]].items) > 10
    /\ Len(news) = 15
    /\ news[10].source = NEWS_FEEDS[1]
    /\ news[11].source = NEWS_FEEDS[2]

-----------------------------------------------------------------------------
(* Properties of the run, checked under Spec *)

====
